---- MODULE Spec2Model ----
(***************************************************************************)
(* A model of ffb2fs2ffb.py: Firefox bookmarks to the file system and      *)
(* back.  Text (titles, file names) is a sequence of characters, each      *)
(* character a one-element string; the few non-ASCII characters of the     *)
(* model are written by their code point ("U+00E9").  A path is a sequence *)
(* of file names.  A node of the bookmarks tree is a record, as the dict   *)
(* of the source: a key the dict lacks is a field the record lacks.        *)
(***************************************************************************)
EXTENDS Integers, Sequences, FiniteSets, TLC

(***************************************************************************)
(* Characters                                                              *)
(***************************************************************************)
LowerLetters == <<"a","b","c","d","e","f","g","h","i","j","k","l","m",
                  "n","o","p","q","r","s","t","u","v","w","x","y","z">>
UpperLetters == <<"A","B","C","D","E","F","G","H","I","J","K","L","M",
                  "N","O","P","Q","R","S","T","U","V","W","X","Y","Z">>
Digits == <<"0","1","2","3","4","5","6","7","8","9">>

Range(s) == { s[i] : i \in DOMAIN s }

\* U+00E9 e with acute, U+0301 combining acute, U+00A0 no-break space,
\* U+20AC euro sign: the characters of the model outside ASCII.
NonAscii == {"U+00E9", "U+0301", "U+00A0", "U+20AC"}

\* \s of a byte-string regular expression, and what str.strip() strips.
Whitespace == {" ", "\t"}

\* \w of a byte-string regular expression: [a-zA-Z0-9_].
WordChars == Range(LowerLetters) \cup Range(UpperLetters) \cup Range(Digits) \cup {"_"}

RECURSIVE Flatten(_)
Flatten(ss) == IF ss = <<>> THEN <<>> ELSE Head(ss) \o Flatten(Tail(ss))

\* unicodedata.normalize('NFKD', value): compatibility decomposition.
NFKD(value) ==
    Flatten([i \in DOMAIN value |->
        IF value[i] = "U+00E9" THEN <<"e", "U+0301">>
        ELSE IF value[i] = "U+00A0" THEN <<" ">>
        ELSE <<value[i]>>])

\* .encode('ascii', 'ignore'): the characters outside ASCII are dropped.
EncodeAsciiIgnore(value) == SelectSeq(value, LAMBDA c : c \notin NonAscii)

\* re.sub('[^\w\s-]', '', value)
RemoveNonWord(value) ==
    SelectSeq(value, LAMBDA c : c \in WordChars \cup Whitespace \cup {"-"})

\* str.strip()
RECURSIVE LStrip(_)
LStrip(value) ==
    IF value # <<>> /\ Head(value) \in Whitespace THEN LStrip(Tail(value)) ELSE value

RECURSIVE RStrip(_)
RStrip(value) ==
    IF value # <<>> /\ value[Len(value)] \in Whitespace
    THEN RStrip(SubSeq(value, 1, Len(value) - 1))
    ELSE value

Strip(value) == RStrip(LStrip(value))

\* str.lower()
LowerChar(c) ==
    IF c \in Range(UpperLetters)
    THEN LowerLetters[CHOOSE i \in DOMAIN UpperLetters : UpperLetters[i] = c]
    ELSE c

Lower(value) == [i \in DOMAIN value |-> LowerChar(value[i])]

\* re.sub('[-\s]+', '-', value): each maximal run becomes one hyphen.
RECURSIVE CollapseRuns(_)
CollapseRuns(value) ==
    IF value = <<>> THEN <<>>
    ELSE IF Head(value) \in Whitespace \cup {"-"}
         THEN IF Len(value) > 1 /\ value[2] \in Whitespace \cup {"-"}
              THEN CollapseRuns(Tail(value))
              ELSE <<"-">> \o CollapseRuns(Tail(value))
         ELSE <<Head(value)>> \o CollapseRuns(Tail(value))

\* slugify with its two substitutions in the other order.
slugify_swapped(value, max_filename_length) ==
    LET v == Lower(Strip(RemoveNonWord(CollapseRuns(EncodeAsciiIgnore(NFKD(value))))))
    IN  IF Len(v) > max_filename_length THEN SubSeq(v, 1, max_filename_length) ELSE v

slugify(value, max_filename_length) ==
    LET v1 == EncodeAsciiIgnore(NFKD(value))
        v2 == Lower(Strip(RemoveNonWord(v1)))
        v3 == CollapseRuns(v2)
    IN  IF Len(v3) > max_filename_length
        THEN SubSeq(v3, 1, max_filename_length)
        ELSE v3

\* The default of slugify's max_filename_length.
DefaultMaxFilenameLength == 200

(***************************************************************************)
(* Nodes: the dicts of the bookmarks tree                                  *)
(***************************************************************************)
PLACE == "text/x-moz-place"
PLACE_CONTAINER == "text/x-moz-place-container"
\* Firefox's third node type, which the script does not know.
PLACE_SEPARATOR == "text/x-moz-place-separator"

Has(node, key) == key \in DOMAIN node

\* node[key] = val
With(node, key, val) ==
    [k \in DOMAIN node \cup {key} |-> IF k = key THEN val ELSE node[k]]

\* node.get('children', ())
Children(node) == IF Has(node, "children") THEN node.children ELSE <<>>

is_bookmark(node) == Has(node, "type") /\ node.type = PLACE

is_container(node) == Has(node, "type") /\ node.type = PLACE_CONTAINER

\* '%s' % n for a natural number n
RECURSIVE ToDecimal(_)
ToDecimal(n) ==
    IF n < 10 THEN <<Digits[n + 1]>>
    ELSE ToDecimal(n \div 10) \o <<Digits[(n % 10) + 1]>>

FFID == <<"_", "_", "f", "f", "i", "d", "=">>

node_filename(node) ==
    slugify(node.title, DefaultMaxFilenameLength) \o FFID \o ToDecimal(node.id)

CONTAINER_FILE_NAME ==
    <<"_","_","i","n","f","o","_","_",".","f","f","c","o","n","t","a","i","n","e","r">>

FFURL == <<".", "f", "f", "u", "r", "l">>

\* generate_container_dict(title=..., dateAdded=..., lastModified=...): the
\* arguments left at None give no key.
generate_container_dict(title, dateAdded, lastModified) ==
    [type |-> PLACE_CONTAINER, title |-> title,
     dateAdded |-> dateAdded, lastModified |-> lastModified]

\* datetime.datetime.fromtimestamp(t): the LOCAL time of t seconds after the
\* epoch, a naive datetime, here in seconds since 1970-01-01 00:00 on the
\* local wall clock.
fromtimestamp(t, utcoffset) == t + utcoffset

\* datetime2prtime of a naive datetime given in whole seconds.
datetime2prtime(seconds) == seconds * 1000000

(***************************************************************************)
(* The file system: a function from paths to entries.  An entry is a       *)
(* directory or a file with its pickled record, its modification time and  *)
(* its change time.  Every write takes its time from a clock that moves on *)
(* with each write.                                                        *)
(***************************************************************************)
NoData == [nodata |-> TRUE]

DirEntry(t, w) == [kind |-> "dir", mtime |-> t, ctime |-> t, writable |-> w, data |-> NoData]

FileEntry(t, data) == [kind |-> "file", mtime |-> t, ctime |-> t, writable |-> TRUE, data |-> data]

exists(f, path) == path \in DOMAIN f

isdir(f, path) == exists(f, path) /\ f[path].kind = "dir"

join(path, name) == Append(path, name)

basename(path) == path[Len(path)]

dirname(path) == SubSeq(path, 1, Len(path) - 1)

IsPrefix(p, q) == Len(p) <= Len(q) /\ SubSeq(q, 1, Len(p)) = p

\* The directory holding path has an entry added or removed at time t.
Touch(f, path, t) ==
    IF exists(f, dirname(path))
    THEN [f EXCEPT ![dirname(path)].mtime = t, ![dirname(path)].ctime = t]
    ELSE f

\* os.makedirs(path) at time t; the directories above path exist.
makedirs(f, path, t) ==
    [q \in DOMAIN f \cup {path} |->
        IF q = path THEN DirEntry(t, TRUE) ELSE Touch(f, path, t)[q]]

\* open(path, 'w') and pickle.dump(data) at time t.
write_file(f, path, data, t) ==
    [q \in DOMAIN f \cup {path} |->
        IF q = path THEN FileEntry(t, data)
        ELSE IF exists(f, path) THEN f[q] ELSE Touch(f, path, t)[q]]

\* shutil.rmtree(path)
rmtree(f, path) ==
    [q \in { r \in DOMAIN f : ~IsPrefix(path, r) } |-> f[q]]

\* os.listdir(root_dir), joined with root_dir
listdir(f, root_dir) ==
    { q \in DOMAIN f : Len(q) = Len(root_dir) + 1 /\ IsPrefix(root_dir, q) }

\* What ensure_writable_dir(path) raises, "" when it raises nothing.
ensure_writable_dir_error(f, path) ==
    IF exists(f, path)
    THEN IF ~isdir(f, path) THEN "NotADirectory"
         ELSE IF ~f[path].writable THEN "PermissionDenied"
         ELSE ""
    ELSE ""

\* ensure_writable_dir(path) at time t, when it raises nothing.
ensure_writable_dir(f, path, t) ==
    IF exists(f, path) THEN f ELSE makedirs(f, path, t)

(***************************************************************************)
(* dir2bookmarks: the directory hierarchy read back into a tree            *)
(***************************************************************************)
\* name.partition('__')[0]: what stands before the first '__', the whole
\* name when it holds none.
RECURSIVE PartitionHead(_)
PartitionHead(name) ==
    IF name = <<>> THEN <<>>
    ELSE IF Len(name) >= 2 /\ name[1] = "_" /\ name[2] = "_" THEN <<>>
    ELSE <<Head(name)>> \o PartitionHead(Tail(name))

\* .replace('\"', '\'')
ReplaceQuotes(name) == [i \in DOMAIN name |-> IF name[i] = "\"" THEN "'" ELSE name[i]]

update_title(fn, entry) ==
    IF PartitionHead(basename(fn)) # slugify(entry.title, DefaultMaxFilenameLength)
    THEN With(entry, "title", ReplaceQuotes(PartitionHead(basename(fn))))
    ELSE entry

EndsWith(name, suffix) ==
    Len(name) >= Len(suffix)
    /\ SubSeq(name, Len(name) - Len(suffix) + 1, Len(name)) = suffix

\* fs_children.sort(key=op.getmtime) with reverse=True.
RECURSIVE sort_by_mtime_reversed(_, _)
sort_by_mtime_reversed(f, paths) ==
    IF paths = {} THEN <<>>
    ELSE LET last == CHOOSE q \in paths : \A r \in paths : f[q].mtime >= f[r].mtime
         IN  <<last>> \o sort_by_mtime_reversed(f, paths \ {last})

\* fs_children.sort(key=op.getmtime): ascending modification time.  Where two
\* entries of one directory have the same time the order is that of
\* os.listdir, which is arbitrary.
RECURSIVE sort_by_mtime(_, _)
sort_by_mtime(f, paths) ==
    IF paths = {} THEN <<>>
    ELSE LET first == CHOOSE q \in paths : \A r \in paths : f[q].mtime <= f[r].mtime
         IN  <<first>> \o sort_by_mtime(f, paths \ {first})

\* synthesized_container with the two times the other way round.
synthesized_container_swapped(f, root_dir, utcoffset) ==
    generate_container_dict(
        basename(root_dir),
        datetime2prtime(fromtimestamp(f[root_dir].ctime, utcoffset)),
        datetime2prtime(fromtimestamp(f[root_dir].mtime, utcoffset)))

\* The container a directory without container file is read as.
synthesized_container(f, root_dir, utcoffset) ==
    generate_container_dict(
        basename(root_dir),
        datetime2prtime(fromtimestamp(f[root_dir].mtime, utcoffset)),
        datetime2prtime(fromtimestamp(f[root_dir].ctime, utcoffset)))

RECURSIVE read_container(_, _, _)
RECURSIVE read_children(_, _, _)

\* The loop of read_container over the sorted entries of the directory.
read_children(f, fs_children, utcoffset) ==
    IF fs_children = <<>> THEN <<>>
    ELSE LET fs_child == Head(fs_children)
             rest == read_children(f, Tail(fs_children), utcoffset)
         IN  IF isdir(f, fs_child)
             THEN <<read_container(f, fs_child, utcoffset)>> \o rest
             ELSE IF EndsWith(basename(fs_child), FFURL)
                  THEN <<update_title(fs_child, f[fs_child].data)>> \o rest
                  ELSE rest

\* read_container(root_dir), root_dir a directory.
read_container(f, root_dir, utcoffset) ==
    LET container_file == join(root_dir, CONTAINER_FILE_NAME)
        this_container ==
            IF exists(f, container_file)
            THEN f[container_file].data
            ELSE synthesized_container(f, root_dir, utcoffset)
        ff_children ==
            read_children(f, sort_by_mtime(f, listdir(f, root_dir)), utcoffset)
    IN  update_title(root_dir, With(this_container, "children", ff_children))

\* The first id uniquify_ids assigns.
FirstAssignedId == 2

RECURSIVE traverse_with_parent(_, _, _, _)
RECURSIVE traverse_children(_, _, _)

\* traverse_with_parent(root, parent) with nodef = assign_id; the counter
\* last_assigned is passed in and handed back.
traverse_with_parent(root, has_parent, parent_id, last_assigned) ==
    LET n1 == With(root, "id", last_assigned)
        n2 == IF has_parent THEN With(n1, "parent", parent_id) ELSE n1
        kids == traverse_children(Children(root), last_assigned, last_assigned + 1)
    IN  [node |-> IF Has(root, "children") THEN With(n2, "children", kids.nodes) ELSE n2,
         last_assigned |-> kids.last_assigned]

traverse_children(children, parent_id, last_assigned) ==
    IF children = <<>> THEN [nodes |-> <<>>, last_assigned |-> last_assigned]
    ELSE LET first == traverse_with_parent(Head(children), TRUE, parent_id, last_assigned)
             rest == traverse_children(Tail(children), parent_id, first.last_assigned)
         IN  [nodes |-> <<first.node>> \o rest.nodes, last_assigned |-> rest.last_assigned]

\* uniquify_ids whose assign_id leaves the counter alone.
uniquify_ids_stuck(root) ==
    LET RECURSIVE stuck(_, _, _)
        stuck(node, has_parent, parent_id) ==
            LET n1 == With(node, "id", FirstAssignedId)
                n2 == IF has_parent THEN With(n1, "parent", parent_id) ELSE n1
            IN  IF Has(node, "children")
                THEN With(n2, "children",
                          [i \in DOMAIN node.children |->
                              stuck(node.children[i], TRUE, FirstAssignedId)])
                ELSE n2
    IN  stuck(root, FALSE, 0)

uniquify_ids(root) == traverse_with_parent(root, FALSE, 0, FirstAssignedId).node

(***************************************************************************)
(* The inputs: bookmarks files, destination directories                    *)
(***************************************************************************)
\* The most nodes of a bookmarks tree.
MaxNodes == 4

\* The most nodes of a bookmarks tree mirrored into a directory that is there
\* already.
MaxNodesOver == 3

\* The most nodes of a tree of MaxNodes nodes that break a rule of the tree:
\* no id, an id seen before, an unknown type, children under a node that is
\* no container.  The smaller trees may have one more.
MaxFaulty == 1

\* The titles of the nodes, by the place of the node in the bookmarks file.
Titles ==
    << <<"E", "x">>,
       <<"A", " ", "b", "!">>,
       <<"a", "_", "_", "b">>,
       <<"U+00E9", "x", "_">> >>

TitleOf(i) == Titles[((i - 1) % Len(Titles)) + 1]

Uris == <<"http://1", "http://2", "http://3", "http://4">>

UriOf(i) == Uris[((i - 1) % Len(Uris)) + 1]

\* The trees of n nodes: node 1 is the root, par[i] < i is the node above
\* node i, the children of a node stand in the order of their numbers;
\* ids[i] = 0 is a node without id.
Faulty(n, par, typ, ids, i) ==
    \/ ids[i] = 0
    \/ \E j \in 1..(i - 1) : ids[j] = ids[i]
    \/ typ[i] = PLACE_SEPARATOR
    \/ typ[i] # PLACE_CONTAINER /\ (i = 1 \/ \E j \in 2..n : par[j] = i)

RECURSIVE BuildNode(_, _, _, _, _)
BuildNode(n, par, typ, ids, i) ==
    LET kids == SelectSeq([j \in 1..n |-> j], LAMBDA j : j > 1 /\ par[j] = i)
        base == [type |-> typ[i], title |-> TitleOf(i)]
        n1 == IF ids[i] # 0 THEN With(base, "id", ids[i]) ELSE base
        n2 == IF typ[i] = PLACE THEN With(n1, "uri", UriOf(i)) ELSE n1
        n3 == IF i > 1 /\ ids[par[i]] # 0 THEN With(n2, "parent", ids[par[i]]) ELSE n2
    IN  IF kids = <<>> THEN n3
        ELSE With(n3, "children",
                  [k \in DOMAIN kids |-> BuildNode(n, par, typ, ids, kids[k])])

Parents(n) ==
    { par \in [1..n -> 0..(n - 1)] :
        par[1] = 0 /\ \A i \in 2..n : par[i] \in 1..(i - 1) }

Types(n) ==
    { typ \in [1..n -> {PLACE, PLACE_CONTAINER, PLACE_SEPARATOR}] :
        typ[1] # PLACE_SEPARATOR }

Ids(n) == { ids \in [1..n -> 0..n] : \A i \in 1..n : ids[i] <= i }

BookmarksTrees(maxNodes, maxFaulty) ==
    UNION { { BuildNode(n, q[1], q[2], q[3], 1) :
              q \in { r \in Parents(n) \X Types(n) \X Ids(n) :
                        Cardinality({ i \in 1..n : Faulty(n, r[1], r[2], r[3], i) })
                            <= maxFaulty } } :
            n \in 1..maxNodes }

\* No bookmarks file at the path given.
Missing == [missing |-> TRUE]

\* dest_dir, a directory of the current directory.
dest_dir == << <<"d">> >>

\* dest_dir is not there.
Absent == [q \in {} |-> NoData]

EmptyDir == (dest_dir :> DirEntry(1, TRUE))

ReadOnlyDir == (dest_dir :> DirEntry(1, FALSE))

AFile == (dest_dir :> FileEntry(1, NoData))

OldDirName == <<"a", "-", "b", "_", "_", "f", "f", "i", "d", "=", "2">>

OwnDirName == <<"m", "y", "_", "_", "s">>

\* What an earlier mirroring and the user left of the subdirectories.
Leftovers ==
       (join(dest_dir, OldDirName) :> DirEntry(3, TRUE))
    @@ (join(join(dest_dir, OldDirName), CONTAINER_FILE_NAME) :>
            FileEntry(3, [type |-> PLACE_CONTAINER, id |-> 2, parent |-> 7,
                          title |-> <<"A", " ", "b", "!">>, children |-> <<>>]))
    @@ (join(dest_dir, OwnDirName) :>
            [DirEntry(5, TRUE) EXCEPT !.ctime = 6])
    @@ (join(join(dest_dir, OwnDirName), <<"q">> \o FFURL) :>
            FileEntry(5, [type |-> PLACE, title |-> <<"q">>, uri |-> "http://q",
                          children |-> << [type |-> PLACE, id |-> 7, title |-> <<"r">>,
                                           uri |-> "http://r"] >>]))
    @@ (join(dest_dir, <<"n", ".", "t", "x", "t">>) :> FileEntry(7, NoData))

\* An earlier mirroring, whole.
Previous ==
       (dest_dir :> [DirEntry(8, TRUE) EXCEPT !.ctime = 9])
    @@ (join(dest_dir, CONTAINER_FILE_NAME) :>
            FileEntry(1, [type |-> PLACE_CONTAINER, id |-> 7, parent |-> 1,
                          title |-> <<"O", "l", "d">>, children |-> <<>>]))
    @@ Leftovers

\* An earlier mirroring whose topmost container file is gone.
Partial == (dest_dir :> [DirEntry(8, TRUE) EXCEPT !.ctime = 9]) @@ Leftovers

\* The clock when the script starts: later than every time of the earlier files.
StartTime == 10

\* The seconds local time is ahead of UTC: a quarter of an hour is the grain
\* of the UTC offsets.
UtcOffsets == {0, 900}

(***************************************************************************)
(* The state                                                               *)
(***************************************************************************)
VARIABLES
    bookmarks_file,    \* the tree in the bookmarks file, Missing without file
    delete_all_first,  \* argument of bookmarks2dir
    overwrite,         \* argument of bookmarks2dir
    fs,                \* the file system under dest_dir
    fs0,               \* the file system when bookmarks2dir was called
    clock,             \* the time of the last write
    pc,                \* "start", "call", "loop", "exported", "imported"
    call,              \* the call of build_tree about to run: <<[entry, root_dir]>>
    stack,             \* the calls of build_tree in their loop: [root_dir, children]
    seen_ids,          \* seen_ids of build_tree
    error,             \* what bookmarks2dir raised, "" so far nothing
    written,           \* the nodes written so far: [path, node]
    renamed,           \* <<old path, new path>> once the user renamed an entry
    src_dir,           \* argument of dir2bookmarks
    utcoffset,         \* the local time zone when dir2bookmarks ran
    import_error,      \* what dir2bookmarks raised, "" if nothing
    reconstructed,     \* what dir2bookmarks dumped
    value,             \* slugify: the title given
    max_filename_length, \* slugify: the length given
    slug,              \* slugify(value)
    slug_of_slug,      \* slugify(slugify(value))
    slug_pc            \* "title", "slug", "slug_of_slug"

vars == <<bookmarks_file, delete_all_first, overwrite, fs, fs0, clock, pc, call,
          stack, seen_ids, error, written, renamed, src_dir, utcoffset,
          import_error, reconstructed, value, max_filename_length, slug,
          slug_of_slug, slug_pc>>

slug_vars == <<value, max_filename_length, slug, slug_of_slug, slug_pc>>

input_vars == <<bookmarks_file, delete_all_first, overwrite, fs0>>

import_vars == <<src_dir, utcoffset, import_error, reconstructed>>

NoSlug ==
    /\ value = <<>>
    /\ max_filename_length = DefaultMaxFilenameLength
    /\ slug = <<>>
    /\ slug_of_slug = <<>>
    /\ slug_pc = "none"

DestDirs == {Absent, EmptyDir, ReadOnlyDir, AFile, Previous, Partial}

Init ==
    /\ \/ /\ bookmarks_file \in BookmarksTrees(MaxNodes, MaxFaulty)
                                 \cup BookmarksTrees(MaxNodesOver, MaxFaulty + 1)
          /\ fs = Absent
          /\ delete_all_first = FALSE
          /\ overwrite = FALSE
       \/ /\ bookmarks_file \in BookmarksTrees(MaxNodesOver, MaxFaulty) \cup {Missing}
          /\ fs \in DestDirs
          /\ delete_all_first \in BOOLEAN
          /\ overwrite \in BOOLEAN
    /\ fs0 = fs
    /\ clock = StartTime
    /\ pc = "start"
    /\ call = <<>>
    /\ stack = <<>>
    /\ seen_ids = {}
    /\ error = ""
    /\ written = <<>>
    /\ renamed = <<>>
    /\ src_dir = <<>>
    /\ utcoffset = 0
    /\ import_error = ""
    /\ reconstructed = Missing
    /\ NoSlug

(***************************************************************************)
(* bookmarks2dir                                                           *)
(***************************************************************************)
\* bookmarks2dir that leaves the root dir as it is.
remove_root_dir_never(f, delete_first) == f

\* "Delete the root_dir"
remove_root_dir(f, delete_first) ==
    IF delete_first /\ isdir(f, dest_dir) THEN rmtree(f, dest_dir) ELSE f

\* bookmarks2dir up to its call of build_tree on the root.
Bookmarks2dirStart ==
    /\ pc = "start"
    /\ IF bookmarks_file = Missing
       THEN /\ error' = "NotFound"
            /\ pc' = "exported"
            /\ UNCHANGED <<fs, call>>
       ELSE /\ fs' = remove_root_dir(fs, delete_all_first)
            /\ call' = <<[entry |-> bookmarks_file, root_dir |-> dest_dir]>>
            /\ pc' = "call"
            /\ UNCHANGED error
    /\ UNCHANGED <<input_vars, clock, stack, seen_ids, written, renamed>>
    /\ UNCHANGED <<import_vars, slug_vars>>

\* check_id_uniqueness that never finds an id in seen_ids.
check_id_uniqueness_error_unseen(entry, seen) ==
    IF ~Has(entry, "id") THEN "MissingId" ELSE ""

\* What check_id_uniqueness(entry) raises, "" when it raises nothing.
check_id_uniqueness_error(entry, seen) ==
    IF ~Has(entry, "id") THEN "MissingId"
    ELSE IF entry.id \in seen THEN "DuplicateId"
    ELSE ""

\* build_tree that never looks for the container file.
enter_error_overwriting(entry, root_dir, seen, f, over) ==
    IF ~is_container(entry) THEN "InvalidStructure"
    ELSE IF check_id_uniqueness_error(entry, seen) # ""
         THEN check_id_uniqueness_error(entry, seen)
    ELSE ensure_writable_dir_error(f, root_dir)

\* What build_tree(entry, root_dir, seen_ids) raises before it writes the
\* container, "" when it raises nothing.
enter_error(entry, root_dir, seen, f, over) ==
    IF ~is_container(entry) THEN "InvalidStructure"
    ELSE IF check_id_uniqueness_error(entry, seen) # ""
         THEN check_id_uniqueness_error(entry, seen)
    ELSE IF exists(f, join(root_dir, CONTAINER_FILE_NAME)) /\ ~over THEN "AlreadyExists"
    ELSE ensure_writable_dir_error(f, root_dir)

\* build_tree from its entry to the loop over the children: the container is
\* checked and written.
BuildTreeEnter ==
    /\ pc = "call"
    /\ LET entry == call[1].entry
           root_dir == call[1].root_dir
           container_file == join(root_dir, CONTAINER_FILE_NAME)
           err == enter_error(entry, root_dir, seen_ids, fs, overwrite)
           made == ~exists(fs, root_dir)
           t1 == IF made THEN clock + 1 ELSE clock
           record == With(entry, "children", <<>>)
       IN  /\ seen_ids' = IF is_container(entry)
                             /\ check_id_uniqueness_error(entry, seen_ids) = ""
                          THEN seen_ids \cup {entry.id}
                          ELSE seen_ids
           /\ IF err # ""
              THEN /\ error' = err
                   /\ pc' = "exported"
                   /\ UNCHANGED <<fs, clock, stack, written>>
              ELSE /\ fs' = write_file(ensure_writable_dir(fs, root_dir, t1),
                                       container_file, record, t1 + 1)
                   /\ clock' = t1 + 1
                   /\ stack' = Append(stack, [root_dir |-> root_dir,
                                              children |-> Children(entry)])
                   /\ written' = Append(written, [path |-> container_file,
                                                  node |-> entry])
                   /\ pc' = "loop"
                   /\ UNCHANGED error
    /\ call' = <<>>
    /\ UNCHANGED <<input_vars, renamed, import_vars, slug_vars>>

\* The loop of build_tree without its look at the children of a bookmark.
child_error_lenient(child, seen) ==
    IF is_container(child)
    THEN IF ~Has(child, "id") THEN "KeyError" ELSE ""
    ELSE IF is_bookmark(child)
    THEN check_id_uniqueness_error(child, seen)
    ELSE "InvalidStructure"

\* What the loop of build_tree raises on a child, "" when it raises nothing.
\* node_filename(child) is an argument of the call on a container: a
\* container without id ends it with a KeyError.
child_error(child, seen) ==
    IF is_container(child)
    THEN IF ~Has(child, "id") THEN "KeyError" ELSE ""
    ELSE IF is_bookmark(child)
    THEN IF check_id_uniqueness_error(child, seen) # ""
         THEN check_id_uniqueness_error(child, seen)
         ELSE IF Children(child) # <<>> THEN "InvalidStructure" ELSE ""
    ELSE "InvalidStructure"

\* One turn of the loop of build_tree: a container child is handed to a call
\* of build_tree, a bookmark child is checked and written.
BuildTreeChild ==
    /\ pc = "loop"
    /\ stack # <<>>
    /\ stack[Len(stack)].children # <<>>
    /\ LET top == stack[Len(stack)]
           child == Head(top.children)
           err == child_error(child, seen_ids)
           ffurl == join(top.root_dir, node_filename(child) \o FFURL)
       IN  /\ seen_ids' = IF is_bookmark(child)
                             /\ check_id_uniqueness_error(child, seen_ids) = ""
                          THEN seen_ids \cup {child.id}
                          ELSE seen_ids
           /\ stack' = [stack EXCEPT ![Len(stack)].children = Tail(top.children)]
           /\ IF err # ""
              THEN /\ error' = err
                   /\ pc' = "exported"
                   /\ UNCHANGED <<fs, clock, call, written>>
              ELSE IF is_container(child)
              THEN /\ call' = <<[entry |-> child,
                                 root_dir |-> join(top.root_dir, node_filename(child))]>>
                   /\ pc' = "call"
                   /\ UNCHANGED <<fs, clock, error, written>>
              ELSE /\ fs' = write_file(fs, ffurl, child, clock + 1)
                   /\ clock' = clock + 1
                   /\ written' = Append(written, [path |-> ffurl, node |-> child])
                   /\ UNCHANGED <<pc, call, error>>
    /\ UNCHANGED <<input_vars, renamed, import_vars, slug_vars>>

\* The loop of build_tree is over: the call returns, the last one to
\* bookmarks2dir, which is done.
BuildTreeReturn ==
    /\ pc = "loop"
    /\ stack # <<>>
    /\ stack[Len(stack)].children = <<>>
    /\ stack' = SubSeq(stack, 1, Len(stack) - 1)
    /\ pc' = IF Len(stack) = 1 THEN "exported" ELSE "loop"
    /\ UNCHANGED <<input_vars, fs, clock, call, seen_ids, error, written, renamed>>
    /\ UNCHANGED <<import_vars, slug_vars>>

(***************************************************************************)
(* Between the two scripts the user may rename one file or directory of    *)
(* the mirror: that is how a bookmark is given another title.              *)
(***************************************************************************)
\* The name the user gives: it holds a double quote and a '__'.
NewName == <<"n", "\"", "w", "_", "_", "f", "f", "i", "d", "=", "9">>

Rename ==
    /\ pc = "exported"
    /\ renamed = <<>>
    /\ \E old \in DOMAIN fs :
         LET name == IF EndsWith(basename(old), FFURL) THEN NewName \o FFURL ELSE NewName
             new == join(dirname(old), name)
             Moved(q) == new \o SubSeq(q, Len(old) + 1, Len(q))
             kept == { q \in DOMAIN fs : ~IsPrefix(old, q) }
             moved == { Moved(q) : q \in { r \in DOMAIN fs : IsPrefix(old, r) } }
             Origin(q) == CHOOSE r \in DOMAIN fs : IsPrefix(old, r) /\ Moved(r) = q
         IN  /\ Len(old) >= 2
             /\ IsPrefix(dest_dir, old)
             /\ basename(old) # CONTAINER_FILE_NAME
             /\ ~exists(fs, new)
             /\ fs' = [q \in kept \cup moved |->
                         IF q = new THEN [fs[old] EXCEPT !.ctime = clock + 1]
                         ELSE IF q \in moved THEN fs[Origin(q)]
                         ELSE IF q = dirname(old)
                              THEN [fs[q] EXCEPT !.mtime = clock + 1, !.ctime = clock + 1]
                              ELSE fs[q]]
             /\ renamed' = <<old, new>>
    /\ clock' = clock + 1
    /\ UNCHANGED <<input_vars, pc, call, stack, seen_ids, error, written>>
    /\ UNCHANGED <<import_vars, slug_vars>>

(***************************************************************************)
(* dir2bookmarks                                                           *)
(***************************************************************************)
Dir2bookmarks ==
    /\ pc = "exported"
    /\ \E dir \in { q \in DOMAIN fs : isdir(fs, q) } \cup {dest_dir}, off \in UtcOffsets :
         /\ src_dir' = dir
         /\ utcoffset' = off
         /\ IF ~isdir(fs, dir)
            THEN /\ import_error' = "NotADirectory"
                 /\ UNCHANGED reconstructed
            ELSE /\ reconstructed' = uniquify_ids(read_container(fs, dir, off))
                 /\ UNCHANGED import_error
    /\ pc' = "imported"
    /\ UNCHANGED <<input_vars, fs, clock, call, stack, seen_ids, error, written, renamed>>
    /\ UNCHANGED slug_vars

Next ==
    \/ Bookmarks2dirStart
    \/ BuildTreeEnter
    \/ BuildTreeChild
    \/ BuildTreeReturn
    \/ Rename
    \/ Dir2bookmarks

Spec == Init /\ [][Next]_vars

(***************************************************************************)
(* slugify on its own                                                      *)
(***************************************************************************)
\* The longest title given to slugify.
MaxTitleLength == 4

\* A max_filename_length short enough for slugify to cut.
ShortFilenameLength == 2

SlugAlphabet == {"a", "A", " ", "-", "_", "!", "U+00E9", "U+00A0"}

TitlesUpTo(n) == UNION { [1..k -> SlugAlphabet] : k \in 0..n }

InitSlugify ==
    /\ value \in TitlesUpTo(MaxTitleLength)
    /\ max_filename_length \in {ShortFilenameLength, DefaultMaxFilenameLength}
    /\ slug = <<>>
    /\ slug_of_slug = <<>>
    /\ slug_pc = "title"
    /\ bookmarks_file = Missing
    /\ delete_all_first = FALSE
    /\ overwrite = FALSE
    /\ fs = Absent
    /\ fs0 = Absent
    /\ clock = StartTime
    /\ pc = "none"
    /\ call = <<>>
    /\ stack = <<>>
    /\ seen_ids = {}
    /\ error = ""
    /\ written = <<>>
    /\ renamed = <<>>
    /\ src_dir = <<>>
    /\ utcoffset = 0
    /\ import_error = ""
    /\ reconstructed = Missing

Slugify ==
    /\ slug_pc = "title"
    /\ slug' = slugify(value, max_filename_length)
    /\ slug_pc' = "slug"
    /\ UNCHANGED <<value, max_filename_length, slug_of_slug>>
    /\ UNCHANGED <<input_vars, fs, clock, pc, call, stack, seen_ids, error, written,
                   renamed, import_vars>>

SlugifyAgain ==
    /\ slug_pc = "slug"
    /\ slug_of_slug' = slugify(slug, max_filename_length)
    /\ slug_pc' = "slug_of_slug"
    /\ UNCHANGED <<value, max_filename_length, slug>>
    /\ UNCHANGED <<input_vars, fs, clock, pc, call, stack, seen_ids, error, written,
                   renamed, import_vars>>

NextSlugify == Slugify \/ SlugifyAgain

SpecSlugify == InitSlugify /\ [][NextSlugify]_vars

(***************************************************************************)
(* What the properties speak of                                            *)
(***************************************************************************)
\* The nodes of a tree, depth first, a node before its children.
RECURSIVE PreOrder(_)
PreOrder(node) ==
    <<node>> \o Flatten([i \in DOMAIN Children(node) |-> PreOrder(Children(node)[i])])

\* The nodes below the nodes of a tree that are no containers.
RECURSIVE BelowNonContainers(_)
BelowNonContainers(node) ==
    UNION { IF is_container(node)
            THEN BelowNonContainers(Children(node)[i])
            ELSE Range(PreOrder(Children(node)[i])) :
            i \in DOMAIN Children(node) }

DistinctIds(nodes) ==
    /\ \A i \in DOMAIN nodes : Has(nodes[i], "id")
    /\ \A i, j \in DOMAIN nodes : i # j => nodes[i].id # nodes[j].id

\* The tree invariant set of the data model.
WellFormed(tree) ==
    /\ tree # Missing
    /\ is_container(tree)
    /\ DistinctIds(PreOrder(tree))
    /\ \A i \in DOMAIN PreOrder(tree) :
         LET node == PreOrder(tree)[i]
         IN  \/ is_container(node)
             \/ is_bookmark(node) /\ Children(node) = <<>>

\* The same branching, the same types and the same uris at the same places.
RECURSIVE SameShape(_, _)
SameShape(a, b) ==
    /\ Has(a, "type") /\ Has(b, "type") /\ a.type = b.type
    /\ is_bookmark(a) => Has(a, "uri") /\ Has(b, "uri") /\ a.uri = b.uri
    /\ Len(Children(a)) = Len(Children(b))
    /\ \A i \in DOMAIN Children(a) : SameShape(Children(a)[i], Children(b)[i])

\* Every child names the node above it as its parent, all the way down.
RECURSIVE ParentsAreFresh(_)
ParentsAreFresh(node) ==
    \A i \in DOMAIN Children(node) :
        LET child == Children(node)[i]
        IN  /\ Has(child, "parent")
            /\ Has(node, "id")
            /\ child.parent = node.id
            /\ ParentsAreFresh(child)

exported == pc \in {"exported", "imported"}

\* dir2bookmarks ran on the directory bookmarks2dir had just written.
RoundTrip ==
    /\ pc = "imported"
    /\ renamed = <<>>
    /\ src_dir = dest_dir

(***************************************************************************)
(* The properties                                                          *)
(***************************************************************************)
\* C1: a well-formed tree mirrored into an absent or empty directory and read
\* back from it comes back with the same branching, the same types in the
\* same order and the same uri at every bookmark; both scripts run through.
C1_StructuralRoundTrip ==
    (exported /\ WellFormed(bookmarks_file) /\ fs0 \in {Absent, EmptyDir})
        => /\ error = ""
           /\ RoundTrip => /\ import_error = ""
                           /\ SameShape(bookmarks_file, reconstructed)

\* A round trip of a tree of four nodes: a container with a bookmark in it,
\* and a bookmark after that container.
C1_Witness ==
    /\ RoundTrip
    /\ WellFormed(bookmarks_file)
    /\ fs0 = Absent
    /\ Len(Children(bookmarks_file)) = 2
    /\ is_container(Children(bookmarks_file)[1])
    /\ Len(Children(Children(bookmarks_file)[1])) = 1
    /\ is_bookmark(Children(bookmarks_file)[2])
    /\ SameShape(bookmarks_file, reconstructed)

\* C2: whatever ids the records of the directory hold, the tree dir2bookmarks
\* dumps has an id at every node, no id twice, and at every node but the root
\* a parent that is the id of the node holding it.
C2_UniqueIdsAfterImport ==
    (pc = "imported" /\ import_error = "")
        => /\ DistinctIds(PreOrder(reconstructed))
           /\ ParentsAreFresh(reconstructed)

\* A tree read from records with an id twice and a record without id.
C2_Witness ==
    /\ pc = "imported"
    /\ import_error = ""
    /\ LET stored == PreOrder(read_container(fs, src_dir, utcoffset))
       IN  /\ \E i, j \in DOMAIN stored :
                i # j /\ Has(stored[i], "id") /\ Has(stored[j], "id")
                      /\ stored[i].id = stored[j].id
           /\ \E i \in DOMAIN stored : ~Has(stored[i], "id")
    /\ DistinctIds(PreOrder(reconstructed))

\* C8: slugify is idempotent on every title whose slug is no longer than
\* max_filename_length.
C8_SlugifyIdempotent ==
    (slug_pc = "slug_of_slug" /\ Len(slug) <= max_filename_length)
        => slug_of_slug = slug

\* A title that slugify changes: a mark dropped, a letter lowered, a run of
\* blanks and hyphens made one hyphen.
C8_Witness ==
    /\ slug_pc = "slug_of_slug"
    /\ value = <<"A", " ", "-", "U+00E9">>
    /\ slug = <<"a", "-", "e">>
    /\ slug_of_slug = slug

\* The ids of the nodes written so far.
IdsWritten == { written[i].node.id : i \in DOMAIN written }

WrittenPaths == { written[i].path : i \in DOMAIN written }

\* Two nodes of the tree, containers or bookmarks, with the same id.
HasDuplicateIds(tree) ==
    \E i, j \in DOMAIN PreOrder(tree) :
        LET a == PreOrder(tree)[i]
            b == PreOrder(tree)[j]
        IN  /\ i # j
            /\ is_container(a) \/ is_bookmark(a)
            /\ is_container(b) \/ is_bookmark(b)
            /\ Has(a, "id") /\ Has(b, "id") /\ a.id = b.id

\* The walk is about to check a node whose id a node written before has.
ReachedSeenId ==
    \/ /\ pc = "call"
       /\ Has(call[1].entry, "id")
       /\ call[1].entry.id \in IdsWritten
    \/ /\ pc = "loop" /\ stack # <<>> /\ stack[Len(stack)].children # <<>>
       /\ is_bookmark(Head(stack[Len(stack)].children))
       /\ Has(Head(stack[Len(stack)].children), "id")
       /\ Head(stack[Len(stack)].children).id \in IdsWritten

\* C3 as it stands, for a destination that is not there: a tree with an id
\* at two nodes makes bookmarks2dir fail with DuplicateId.
C3_Original ==
    (exported /\ fs0 = Absent /\ bookmarks_file # Missing
              /\ HasDuplicateIds(bookmarks_file))
        => error = "DuplicateId"

\* C3: a tree with an id at two nodes makes bookmarks2dir fail; the nodes
\* written have an id each and no id twice, at every point; and when the walk
\* comes to a node whose id a written node has, bookmarks2dir fails with
\* DuplicateId there and writes nothing for it.
C3_DuplicateIdDetection ==
    /\ [](exported /\ bookmarks_file # Missing /\ HasDuplicateIds(bookmarks_file)
             => error # "")
    /\ [](DistinctIds([i \in DOMAIN written |-> written[i].node]))
    /\ [][ReachedSeenId =>
             /\ pc' = "exported"
             /\ error' = "DuplicateId"
             /\ fs' = fs
             /\ written' = written]_vars

\* bookmarks2dir failed with DuplicateId at a node below the root, after two
\* nodes were written.
C3_Witness ==
    /\ pc = "exported"
    /\ error = "DuplicateId"
    /\ Len(written) >= 2
    /\ Len(stack) >= 2

\* The loop of build_tree is at a bookmark with children.
ReachedBookmarkWithChildren ==
    /\ pc = "loop" /\ stack # <<>> /\ stack[Len(stack)].children # <<>>
    /\ is_bookmark(Head(stack[Len(stack)].children))
    /\ Children(Head(stack[Len(stack)].children)) # <<>>

\* C4 as it stands, for the bookmarks that have an id: at a bookmark with
\* children bookmarks2dir fails with InvalidStructure and writes nothing.
C4_Original ==
    [][(ReachedBookmarkWithChildren /\ Has(Head(stack[Len(stack)].children), "id")) =>
          /\ pc' = "exported"
          /\ error' = "InvalidStructure"
          /\ fs' = fs]_vars

\* C4: at a bookmark with children bookmarks2dir fails and writes nothing:
\* with InvalidStructure when the bookmark has an id that no written node
\* has, and with the error of the id check when it has none or a written
\* one; no bookmark with children and no node below a node that is no
\* container is ever written.
C4_BookmarkLeaf ==
    /\ [][ReachedBookmarkWithChildren =>
             LET child == Head(stack[Len(stack)].children)
             IN  /\ pc' = "exported"
                 /\ fs' = fs
                 /\ written' = written
                 /\ error' = IF ~Has(child, "id") THEN "MissingId"
                             ELSE IF child.id \in IdsWritten THEN "DuplicateId"
                             ELSE "InvalidStructure"]_vars
    /\ [](\A i \in DOMAIN written :
             /\ ~(is_bookmark(written[i].node) /\ Children(written[i].node) # <<>>)
             /\ bookmarks_file # Missing
             /\ written[i].node \notin BelowNonContainers(bookmarks_file))

\* bookmarks2dir failed with InvalidStructure on a tree whose one fault is a
\* bookmark with children, after the root was written.
C4_Witness ==
    /\ pc = "exported"
    /\ error = "InvalidStructure"
    /\ written # <<>>
    /\ DistinctIds(PreOrder(bookmarks_file))
    /\ \A i \in DOMAIN PreOrder(bookmarks_file) :
         is_container(PreOrder(bookmarks_file)[i]) \/ is_bookmark(PreOrder(bookmarks_file)[i])
    /\ \E i \in DOMAIN PreOrder(bookmarks_file) :
         /\ is_bookmark(PreOrder(bookmarks_file)[i])
         /\ Children(PreOrder(bookmarks_file)[i]) # <<>>

\* build_tree is called on a container whose container file is there.
ReachedContainerWithFile ==
    /\ pc = "call"
    /\ is_container(call[1].entry)
    /\ exists(fs, join(call[1].root_dir, CONTAINER_FILE_NAME))

\* What C5 says of overwrite = True: no AlreadyExists, and the record is
\* replaced when nothing else fails.
OverwriteReplaces ==
    (ReachedContainerWithFile /\ overwrite) =>
        /\ error' # "AlreadyExists"
        /\ error' = "" =>
              fs'[join(call[1].root_dir, CONTAINER_FILE_NAME)].data
                  = With(call[1].entry, "children", <<>>)

\* C5 as it stands: at a container whose container file is there, without
\* overwrite, bookmarks2dir fails with AlreadyExists and writes nothing.
C5_Original ==
    [][/\ (ReachedContainerWithFile /\ ~overwrite) =>
              /\ pc' = "exported"
              /\ error' = "AlreadyExists"
              /\ fs' = fs
       /\ OverwriteReplaces]_vars

\* C5: at a container whose container file is there, without overwrite,
\* bookmarks2dir fails and writes nothing: with AlreadyExists when the
\* container has an id that no written node has, with the error of the id
\* check otherwise.  With overwrite it does not fail with AlreadyExists and
\* replaces the record.
C5_OverwriteProtection ==
    [][/\ (ReachedContainerWithFile /\ ~overwrite) =>
              /\ pc' = "exported"
              /\ fs' = fs
              /\ written' = written
              /\ error' = IF ~Has(call[1].entry, "id") THEN "MissingId"
                          ELSE IF call[1].entry.id \in IdsWritten THEN "DuplicateId"
                          ELSE "AlreadyExists"
       /\ OverwriteReplaces]_vars

\* bookmarks2dir failed with AlreadyExists at a container below the root:
\* the root was written, the container file of the other kept.
C5_Witness ==
    /\ pc = "exported"
    /\ error = "AlreadyExists"
    /\ ~overwrite
    /\ Len(written) = 1
    /\ \E p \in DOMAIN fs0 :
         /\ Len(p) = 3
         /\ basename(p) = CONTAINER_FILE_NAME
         /\ exists(fs, p)
         /\ fs[p] = fs0[p]

\* The directories and files bookmarks2dir is to write for a tree.
RECURSIVE ExpectedPaths(_, _)
ExpectedPaths(node, dir) ==
    {dir, join(dir, CONTAINER_FILE_NAME)}
    \cup UNION { IF is_container(Children(node)[i])
                 THEN ExpectedPaths(Children(node)[i],
                                    join(dir, node_filename(Children(node)[i])))
                 ELSE {join(dir, node_filename(Children(node)[i]) \o FFURL)} :
                 i \in DOMAIN Children(node) }

\* C6: with delete_all_first, a destination directory that is there is gone
\* before the first write (what is there later was written later), and after
\* a successful run the destination holds the directories and files of the
\* tree and nothing else; without delete_all_first what was there stays, and
\* stays as it was where bookmarks2dir wrote no file over it.
C6_DeleteExisting ==
    /\ (delete_all_first /\ pc # "start" /\ bookmarks_file # Missing
                         /\ isdir(fs0, dest_dir))
          => \A p \in DOMAIN fs : fs[p].mtime > StartTime
    /\ (delete_all_first /\ exported /\ error = "" /\ renamed = <<>>)
          => DOMAIN fs = ExpectedPaths(bookmarks_file, dest_dir)
    /\ (~delete_all_first /\ renamed = <<>>)
          => \A p \in DOMAIN fs0 :
                /\ exists(fs, p)
                /\ fs[p].kind = fs0[p].kind
                /\ p \notin WrittenPaths => fs[p].data = fs0[p].data

\* A successful run with delete_all_first into what an earlier run left.
C6_Witness ==
    /\ pc = "exported"
    /\ error = ""
    /\ delete_all_first
    /\ fs0 = Previous
    /\ Len(written) >= 3
    /\ DOMAIN fs \cap DOMAIN fs0 = {dest_dir, join(dest_dir, CONTAINER_FILE_NAME)}

\* dir2bookmarks read a directory without container file.
ImportedSynthesized ==
    /\ pc = "imported"
    /\ import_error = ""
    /\ ~exists(fs, join(src_dir, CONTAINER_FILE_NAME))

C9_Original ==
    (RoundTrip /\ error = "" /\ import_error = "" /\ fs0 = Absent)
        => /\ Len(PreOrder(reconstructed)) = Len(PreOrder(bookmarks_file))
           /\ \A i \in 2..Len(PreOrder(bookmarks_file)) :
                 PreOrder(reconstructed)[i].title = PreOrder(bookmarks_file)[i].title

\* C10 as it stands: the ids grow along the walk, the root has the first,
\* and the root has no parent.
C10_Original ==
    (pc = "imported" /\ import_error = "")
        => /\ reconstructed.id = FirstAssignedId
           /\ \A i, j \in DOMAIN PreOrder(reconstructed) :
                 i < j => PreOrder(reconstructed)[i].id < PreOrder(reconstructed)[j].id
           /\ ~Has(reconstructed, "parent")

\* No two entries of a directory have the same modification time: the order
\* sort_by_mtime gives is the only one.
NoMtimeTies ==
    \A p, q \in DOMAIN fs :
        (p # q /\ dirname(p) = dirname(q)) => fs[p].mtime # fs[q].mtime

====
